---- MODULE Spec2Model ----
(***************************************************************************)
(* Party turn-order calculator (tools/js/party-order.js).                  *)
(*                                                                         *)
(* The two pure functions calculateBaseSpeeds and calculateWithBuffs are   *)
(* modelled with the arithmetic the JavaScript engine performs: every      *)
(* factor and buff multiplier is an IEEE-754 binary64 number, every        *)
(* product and quotient is rounded to nearest before Math.floor is taken,  *)
(* and a division by a zero multiplier yields Infinity, -Infinity or NaN.  *)
(***************************************************************************)
EXTENDS Integers, Sequences, FiniteSets

VARIABLES position, baseSpeed, factor, buffs, pc,
          effectiveSpeeds, baseSpeeds, finalEffectiveSpeeds, result

vars == <<position, baseSpeed, factor, buffs, pc,
          effectiveSpeeds, baseSpeeds, finalEffectiveSpeeds, result>>

(***************************************************************************)
(* Bounds of the model.                                                    *)
(***************************************************************************)
\* anchor raw speeds 0..MaxSpeed are enumerated, next to the default 1000
MaxSpeed == 5

(***************************************************************************)
(* Program constants.                                                      *)
(***************************************************************************)
PARTY_SIZE == 4
DEFAULT_BUFF_PERCENT == 100
BUFF_PERCENT_MIN == 50
BUFF_PERCENT_MAX == 300
DEFAULT_BASE_SPEED == 1000

(***************************************************************************)
(* binary64 numbers.                                                       *)
(*                                                                         *)
(* A non-integer JavaScript number of this program is always the double    *)
(* nearest to a small fraction num/den (the literals 1.14 and 1.2, and     *)
(* parseFloat(percent) / 100, a correctly rounded quotient of two exact    *)
(* integers).  Double(num, den) records, next to the fraction, where that  *)
(* double lies:  with 2^exp <= num/den < 2^(exp+1), the double is          *)
(*     num/den + err / (den * 2^(52 - exp)),                               *)
(* err being the signed remainder left by rounding the 53-bit significand  *)
(* to nearest.  (A tie cannot occur for den < 2^52.)                       *)
(***************************************************************************)
Min(a, b) == IF a <= b THEN a ELSE b
Abs(a) == IF a < 0 THEN -a ELSE a

RECURSIVE Pow2(_)
Pow2(k) == IF k <= 0 THEN 1 ELSE 2 * Pow2(k - 1)

\* x * 2^px <= y * 2^py, without leaving the integers
LeShift(x, px, y, py) ==
    LET m == Min(px, py) IN x * Pow2(px - m) <= y * Pow2(py - m)

LtShift(x, px, y, py) ==
    LET m == Min(px, py) IN x * Pow2(px - m) < y * Pow2(py - m)

\* the binary exponent of num/den > 0
RECURSIVE Exponent(_, _)
Exponent(n, d) ==
    IF n < d THEN Exponent(2 * n, d) - 1
    ELSE IF n >= 2 * d THEN Exponent(n, 2 * d) + 1
    ELSE 0

\* (r * 2^k) mod d
RECURSIVE ShiftMod(_, _, _)
ShiftMod(r, d, k) == IF k = 0 THEN r % d ELSE ShiftMod((2 * r) % d, d, k - 1)

\* significand rounding error of the double nearest n/d, in units of
\* 1 / (d * 2^(52 - Exponent(n, d)))
RoundErr(n, d) ==
    LET R == ShiftMod(n, d, 52 - Exponent(n, d))
    IN  IF 2 * R < d THEN -R ELSE d - R

Double(n, d) ==
    IF n = 0 THEN [num |-> 0, den |-> d, exp |-> 0, err |-> 0]
    ELSE [num |-> n, den |-> d, exp |-> Exponent(n, d), err |-> RoundErr(n, d)]

\* e with 2^e < k <= 2^(e+1): doubles just below the integer k are 2^(e-52) apart
RECURSIVE BinadeBelow(_)
BinadeBelow(k) == IF k <= 1 THEN -1 ELSE BinadeBelow((k + 1) \div 2) + 1

\* e with 2^e <= k < 2^(e+1): doubles just above the integer k are 2^(e-52) apart
RECURSIVE BinadeAbove(_)
BinadeAbove(k) == IF k <= 1 THEN 0 ELSE BinadeAbove(k \div 2) + 1

(***************************************************************************)
(* const BATTLE_FACTORS = { NORMAL: 1.14, MEGAMON: 1.2 }                   *)
(***************************************************************************)
BATTLE_FACTORS == [NORMAL |-> Double(114, 100), MEGAMON |-> Double(120, 100)]

(***************************************************************************)
(* function floorMul(a, f) { return Math.floor(a * f); }                   *)
(* for an integer a and a double f > 0.  With m = |a| and                  *)
(* m * num = k0 * den + r0, the exact product is k0 + r0/den plus the      *)
(* tiny share m * err / (den * 2^(52-exp)) of f's rounding error.  Only    *)
(* when r0 = 0 can that share move the product across the integer k0, and  *)
(* then the product, rounded to nearest, lands on k0 again exactly when    *)
(* the share is at most half the spacing of the doubles next to k0.        *)
(***************************************************************************)
floorMul(a, f) ==
    LET m  == Abs(a)
        k0 == (m * f.num) \div f.den
        r0 == (m * f.num) % f.den
    IN  IF a = 0 THEN 0
        ELSE IF a > 0
        THEN IF r0 > 0 \/ f.err >= 0 THEN k0
             ELSE IF LeShift(m * (-f.err), 1 + f.exp, f.den, BinadeBelow(k0))
                  THEN k0 ELSE k0 - 1
        ELSE IF r0 > 0 THEN -(k0 + 1)
             ELSE IF f.err <= 0 THEN -k0
             ELSE IF LeShift(m * f.err, 1 + f.exp, f.den, BinadeAbove(k0))
                  THEN -k0 ELSE -(k0 + 1)

\* variant: Math.round(a / f), the quotient rounded instead of floored
floorDivHalfUp(a, f) == (2 * a * f.den + f.num) \div (2 * f.num)

(***************************************************************************)
(* function floorDiv(a, f) { return Math.floor(a / f); }                   *)
(* for an integer a and a double f > 0, by the same argument on            *)
(* m * den = k0 * num + r0.                                                *)
(***************************************************************************)
floorDiv(a, f) ==
    LET m  == Abs(a)
        k0 == (m * f.den) \div f.num
        r0 == (m * f.den) % f.num
    IN  IF a = 0 THEN 0
        ELSE IF a > 0
        THEN IF r0 > 0 \/ f.err <= 0 THEN k0
             ELSE IF LeShift(k0 * f.err, 1 + f.exp, f.num, BinadeBelow(k0))
                  THEN k0 ELSE k0 - 1
        ELSE IF r0 > 0 THEN -(k0 + 1)
             ELSE IF f.err >= 0 THEN -k0
             ELSE IF LtShift(k0 * (-f.err), 1 + f.exp, f.num, BinadeAbove(k0))
                  THEN -k0 ELSE -(k0 + 1)

(***************************************************************************)
(* JavaScript numbers that may be non-finite (the entries of baseSpeeds    *)
(* and finalEffectiveSpeeds).                                              *)
(***************************************************************************)
Finite(v) == [kind |-> "finite", val |-> v]
PosInfinity == [kind |-> "Infinity", val |-> 0]
NegInfinity == [kind |-> "-Infinity", val |-> 0]
NaN == [kind |-> "NaN", val |-> 0]

\* variant: Math.ceil(v / b), the raw speed rounded up
MathFloorQuotientCeil(v, b) ==
    IF b.num = 0 THEN NaN ELSE Finite(-floorDiv(-v, b))

\* Math.floor(v / b) for an integer v and a double b >= 0 (line 157):
\* v / 0 is Infinity, -Infinity or (for v = 0) NaN, and Math.floor keeps it
MathFloorQuotient(v, b) ==
    IF b.num = 0
    THEN IF v > 0 THEN PosInfinity ELSE IF v < 0 THEN NegInfinity ELSE NaN
    ELSE Finite(floorDiv(v, b))

\* variant: Math.ceil(x * b), the effective speed rounded up
MathFloorProductCeil(x, b) ==
    IF x.kind = "finite" /\ b.num # 0 THEN Finite(-floorMul(-x.val, b)) ELSE NaN

\* Math.floor(x * b) for a JavaScript number x and a double b >= 0 (lines
\* 144-147 and 162): Infinity * 0 and NaN * b are NaN
MathFloorProduct(x, b) ==
    IF x.kind = "finite"
    THEN IF b.num = 0 THEN Finite(0) ELSE Finite(floorMul(x.val, b))
    ELSE IF b.num = 0 THEN NaN ELSE x

(***************************************************************************)
(* calculateBaseSpeeds(position, baseSpeed, factor)                        *)
(***************************************************************************)
\* variant: the upward loop without the + 1
RECURSIVE UpPassNoIncrement(_, _, _)
UpPassNoIncrement(s, i, f) ==
    IF i < 1 THEN s
    ELSE UpPassNoIncrement([s EXCEPT ![i] = floorMul(s[i + 1], f)], i - 1, f)

\* variant: the upward loop with - 1 for + 1
RECURSIVE UpPassDecrement(_, _, _)
UpPassDecrement(s, i, f) ==
    IF i < 1 THEN s
    ELSE UpPassDecrement([s EXCEPT ![i] = floorMul(s[i + 1], f) - 1], i - 1, f)

\* for (let i = position - 1; i >= 1; i--) s[i] = floorMul(s[i + 1], factor) + 1;
RECURSIVE UpPass(_, _, _)
UpPass(s, i, f) ==
    IF i < 1 THEN s
    ELSE UpPass([s EXCEPT ![i] = floorMul(s[i + 1], f) + 1], i - 1, f)

\* variant: the downward loop reading s[j - 2], not the immediate neighbour
RECURSIVE DownPassStale(_, _, _)
DownPassStale(s, j, f) ==
    IF j > PARTY_SIZE THEN s
    ELSE DownPassStale([s EXCEPT ![j] = floorDiv(s[j - 2], f) - 1], j + 1, f)

\* variant: the downward loop without the - 1
RECURSIVE DownPassNoDecrement(_, _, _)
DownPassNoDecrement(s, j, f) ==
    IF j > PARTY_SIZE THEN s
    ELSE DownPassNoDecrement([s EXCEPT ![j] = floorDiv(s[j - 1], f)], j + 1, f)

\* for (let j = position + 2; j <= PARTY_SIZE; j++) s[j] = floorDiv(s[j - 1], factor) - 1;
RECURSIVE DownPass(_, _, _)
DownPass(s, j, f) ==
    IF j > PARTY_SIZE THEN s
    ELSE DownPass([s EXCEPT ![j] = floorDiv(s[j - 1], f) - 1], j + 1, f)

calculateBaseSpeeds(pos, speed, f) ==
    LET s0 == [i \in 0..PARTY_SIZE |-> 0]
        s1 == [s0 EXCEPT ![pos] = speed]
        s2 == UpPass(s1, pos - 1, f)
        minCurr == floorDiv(s2[pos], f)
        s3 == IF pos + 1 <= PARTY_SIZE
              THEN [s2 EXCEPT ![pos + 1] = minCurr - 1]
              ELSE s2
        s4 == DownPass(s3, pos + 2, f)
    IN  [i \in 1..PARTY_SIZE |-> s4[i]]

(***************************************************************************)
(* calculateWithBuffs(position, baseSpeed, factor, buffs)                  *)
(***************************************************************************)
\* Math.floor(baseSpeed * buffs[position - 1])
baseEffectiveSpeedFloor(pos, speed, b) == MathFloorProduct(Finite(speed), b[pos]).val

\* variant: step 3 without the anchor's special case
rawSpeedRederived(i, pos, speed, eff, b) == MathFloorQuotient(eff[i], b[i])

\* step 3, one slot: the anchor keeps the input, the others are derived

rawSpeed(i, pos, speed, eff, b) ==
    IF i = pos THEN Finite(speed) ELSE MathFloorQuotient(eff[i], b[i])

\* the four slots' buff multipliers, each parseFloat(percent) / 100
BuffPercents == {0, BUFF_PERCENT_MIN, DEFAULT_BUFF_PERCENT, 110, 290, BUFF_PERCENT_MAX}
Buffs == {Double(p, 100) : p \in BuffPercents}
Factors == {BATTLE_FACTORS.NORMAL, BATTLE_FACTORS.MEGAMON, Double(2, 1)}
Speeds == (0..MaxSpeed) \cup {DEFAULT_BASE_SPEED}
Slots == 1..PARTY_SIZE

Init ==
    /\ position \in Slots
    /\ baseSpeed \in Speeds
    /\ factor \in Factors
    /\ buffs \in [Slots -> Buffs]
    /\ pc = "step1"
    /\ effectiveSpeeds = <<>>
    /\ baseSpeeds = <<>>
    /\ finalEffectiveSpeeds = <<>>
    /\ result = [baseSpeeds |-> <<>>, effectiveSpeeds |-> <<>>]

\* steps 1 and 2 (lines 144-147)
Propagate ==
    /\ pc = "step1"
    /\ effectiveSpeeds' = calculateBaseSpeeds(
            position, baseEffectiveSpeedFloor(position, baseSpeed, buffs), factor)
    /\ pc' = "step3"
    /\ UNCHANGED <<position, baseSpeed, factor, buffs, baseSpeeds,
                   finalEffectiveSpeeds, result>>

\* step 3 (lines 150-159)
DeriveRawSpeeds ==
    /\ pc = "step3"
    /\ baseSpeeds' = [i \in Slots |->
                        rawSpeed(i, position, baseSpeed, effectiveSpeeds, buffs)]
    /\ pc' = "step4"
    /\ UNCHANGED <<position, baseSpeed, factor, buffs, effectiveSpeeds,
                   finalEffectiveSpeeds, result>>

\* step 4 (line 162)
RecomputeEffective ==
    /\ pc = "step4"
    /\ finalEffectiveSpeeds' = [i \in Slots |->
                                  MathFloorProduct(baseSpeeds[i], buffs[i])]
    /\ pc' = "return"
    /\ UNCHANGED <<position, baseSpeed, factor, buffs, effectiveSpeeds,
                   baseSpeeds, result>>

\* return { baseSpeeds, effectiveSpeeds: finalEffectiveSpeeds } (lines 164-167)
Return ==
    /\ pc = "return"
    /\ result' = [baseSpeeds |-> baseSpeeds, effectiveSpeeds |-> finalEffectiveSpeeds]
    /\ pc' = "done"
    /\ UNCHANGED <<position, baseSpeed, factor, buffs, effectiveSpeeds,
                   baseSpeeds, finalEffectiveSpeeds>>

Next == Propagate \/ DeriveRawSpeeds \/ RecomputeEffective \/ Return

Spec == Init /\ [][Next]_vars

(***************************************************************************)
(* Properties.                                                             *)
(***************************************************************************)
AllBuffsPositive == \A i \in Slots : buffs[i].num > 0
SomeBuffZero == \E i \in Slots : buffs[i].num = 0
Propagated == pc # "step1"
Returned == pc = "done"
\* the least integer >= b
CeilBuff(b) == (b.num + b.den - 1) \div b.den

\* C1: in the array calculateBaseSpeeds returns, every slot i above the
\* anchor equals Math.floor(result[i+1] * factor) + 1, taken on the value
\* returned for slot i+1.
C1_UpwardPass ==
    Propagated =>
        \A i \in 1..(position - 1) :
            effectiveSpeeds[i] = floorMul(effectiveSpeeds[i + 1], factor) + 1

\* anchor 3000 in slot 2 with factor 1.14: 3000 * 1.14 is 3419.9999999999995
C1_Witness ==
    /\ Propagated
    /\ position = 2
    /\ factor = BATTLE_FACTORS.NORMAL
    /\ effectiveSpeeds = <<3420, 3000, 2630, 2306>>

\* C2: in the array calculateBaseSpeeds returns, every slot i below the
\* anchor equals Math.floor(result[i-1] / factor) - 1, chained from the
\* value returned for its immediate upper neighbour.
C2_DownwardPass ==
    Propagated =>
        \A i \in (position + 1)..PARTY_SIZE :
            effectiveSpeeds[i] = floorDiv(effectiveSpeeds[i - 1], factor) - 1

C2_Witness ==
    /\ Propagated
    /\ position = 1
    /\ factor = BATTLE_FACTORS.NORMAL
    /\ effectiveSpeeds = <<1000, 876, 767, 671>>

\* C3: the raw speed calculateWithBuffs returns for the anchor slot is the
\* caller's baseSpeed, whatever the buff multipliers are.
C3_AnchorEcho ==
    /\ pc \in {"step4", "return"} => baseSpeeds[position] = Finite(baseSpeed)
    /\ Returned => result.baseSpeeds[position] = Finite(baseSpeed)

\* the call has returned, and re-deriving the anchor from its floored
\* effective speed would have given another value
C3_Witness ==
    /\ Returned
    /\ result.baseSpeeds[position] = Finite(baseSpeed)
    /\ MathFloorQuotient(effectiveSpeeds[position], buffs[position]) # Finite(baseSpeed)

\* C4: with positive buff multipliers, every returned effective speed, the
\* anchor's included, is Math.floor(returned raw speed * buff).
C4_EffectiveConsistency ==
    (Returned /\ AllBuffsPositive) =>
        \A i \in Slots :
            /\ result.baseSpeeds[i].kind = "finite"
            /\ result.effectiveSpeeds[i] =
                   Finite(floorMul(result.baseSpeeds[i].val, buffs[i]))

\* the recomputation changed a slot's propagated value
C4_Witness ==
    /\ Returned
    /\ AllBuffsPositive
    /\ \E i \in Slots : result.effectiveSpeeds[i].val # effectiveSpeeds[i]

\* C5: a call with a zero buff multiplier never returns a result object
\* that carries a non-finite raw or effective speed (it is to end in an
\* error instead).
C5_ZeroBuffFaults ==
    SomeBuffZero =>
        ~ /\ Returned
          /\ \E i \in Slots : \/ result.baseSpeeds[i].kind # "finite"
                              \/ result.effectiveSpeeds[i].kind # "finite"

\* C6 as stated: with positive buff multipliers every returned effective
\* speed is >= 0.
C6_EffectiveNonNegative ==
    (Returned /\ AllBuffsPositive) =>
        \A i \in Slots : result.effectiveSpeeds[i].val >= 0

\* C6 amended: with positive buff multipliers the returned effective speed
\* is >= 0 for the anchor, for every slot above it, and for every slot
\* below it whose propagated value is >= 0.
C6_EffectiveNonNegativeAboveAnchor ==
    (Returned /\ AllBuffsPositive) =>
        \A i \in Slots :
            (i <= position \/ effectiveSpeeds[i] >= 0) =>
                result.effectiveSpeeds[i].val >= 0

C6_Witness ==
    /\ Returned
    /\ AllBuffsPositive
    /\ position = 2
    /\ result.effectiveSpeeds[1].val >= 0
    /\ result.effectiveSpeeds[3].val < 0

\* C7: calculateBaseSpeeds(1, 1000, 1.2) returns [1000, 832, 692, 575].
C7_DownwardChainExample ==
    ( /\ Propagated
      /\ position = 1
      /\ factor = BATTLE_FACTORS.MEGAMON
      /\ baseEffectiveSpeedFloor(position, baseSpeed, buffs) = DEFAULT_BASE_SPEED )
    => effectiveSpeeds = <<1000, 832, 692, 575>>

C7_Witness ==
    /\ Propagated
    /\ position = 1
    /\ factor = BATTLE_FACTORS.MEGAMON
    /\ baseSpeed = DEFAULT_BASE_SPEED
    /\ buffs[1] = Double(DEFAULT_BUFF_PERCENT, 100)
    /\ effectiveSpeeds[4] = 575

\* C8: with positive buff multipliers, the returned effective speed of
\* every slot above the anchor is at least
\* Math.floor(returned effective speed of the next slot * factor) + 1.
C8_BuffsPreserveOrder ==
    (Returned /\ AllBuffsPositive) =>
        \A i \in 1..(position - 1) :
            result.effectiveSpeeds[i].val >=
                floorMul(result.effectiveSpeeds[i + 1].val, factor) + 1

\* C9 as stated: with positive buff multipliers the recomputed effective
\* speed of a slot differs from its propagated value by at most 1, and the
\* anchor's two values are equal.
C9_RefloorWithinOne ==
    (Returned /\ AllBuffsPositive) =>
        /\ \A i \in Slots :
               Abs(result.effectiveSpeeds[i].val - effectiveSpeeds[i]) <= 1
        /\ result.effectiveSpeeds[position].val = effectiveSpeeds[position]

\* C9 amended: with positive buff multipliers the recomputed effective
\* speed of a slot never exceeds its propagated value and falls short of it
\* by at most the buff multiplier rounded up to an integer (1 for a buff of
\* at most 100%, 3 for a buff in (200%, 300%]); the anchor's two values are
\* equal.
C9_RefloorWithinCeilBuff ==
    (Returned /\ AllBuffsPositive) =>
        /\ \A i \in Slots :
               /\ result.effectiveSpeeds[i].val <= effectiveSpeeds[i]
               /\ effectiveSpeeds[i] - result.effectiveSpeeds[i].val
                      <= CeilBuff(buffs[i])
        /\ result.effectiveSpeeds[position].val = effectiveSpeeds[position]

\* a non-anchor slot whose recomputed value is 3 below its propagated one
C9_Witness ==
    /\ Returned
    /\ AllBuffsPositive
    /\ \E i \in Slots \ {position} :
           effectiveSpeeds[i] - result.effectiveSpeeds[i].val = 3

\* C10 as stated: every adjacent pair of the array calculateBaseSpeeds
\* returns satisfies result[i] >= Math.floor(result[i+1] * factor) + 1, and
\* the array is strictly decreasing.
C10_OrderedAndStrictlyDecreasing ==
    Propagated =>
        \A i \in 1..(PARTY_SIZE - 1) :
            /\ effectiveSpeeds[i] >= floorMul(effectiveSpeeds[i + 1], factor) + 1
            /\ effectiveSpeeds[i] > effectiveSpeeds[i + 1]

\* C10 amended: every adjacent pair satisfies
\* result[i] >= Math.floor(result[i+1] * factor) + 1; the array never
\* increases, and it decreases strictly at every pair whose upper entry is
\* >= 0.
C10_OrderedAndDecreasingWhileNonNegative ==
    Propagated =>
        \A i \in 1..(PARTY_SIZE - 1) :
            /\ effectiveSpeeds[i] >= floorMul(effectiveSpeeds[i + 1], factor) + 1
            /\ effectiveSpeeds[i] >= effectiveSpeeds[i + 1]
            /\ effectiveSpeeds[i] >= 0 => effectiveSpeeds[i] > effectiveSpeeds[i + 1]

\* factor 2 from anchor 0 in slot 1: the last two slots are equal
C10_Witness ==
    /\ Propagated
    /\ position = 1
    /\ effectiveSpeeds[1] > effectiveSpeeds[2]
    /\ effectiveSpeeds[3] = effectiveSpeeds[4]

====
